---------------------------- MODULE Spec2Model ----------------------------
(***************************************************************************)
(* Handshake: a single-threaded TCP file sender (server.cpp) and a file    *)
(* receiver (client.cpp).                                                  *)
(*                                                                         *)
(* The model follows the two main() functions statement by statement.      *)
(* Every blocking call (accept, connect, send_exact, recv_exact, send_str, *)
(* recv_str, close) is one step of the process that makes it.  A TCP       *)
(* connection is a pair of FIFO byte sequences; a byte is a number 0..255. *)
(* Each direction keeps every byte ever written (the "wire") and the       *)
(* number of bytes the reader has consumed, so the bytes in flight are the *)
(* suffix of the wire behind the read position.                            *)
(***************************************************************************)
EXTENDS Integers, Sequences, FiniteSets, TLC

(***************************************************************************)
(* Program constants                                                       *)
(***************************************************************************)
\* constexpr size_t CHUNK = 100;  (the same value in server.cpp and client.cpp)
CHUNK == 100

\* the character literals '0' and '1'
Ch0 == 48
Ch1 == 49

(***************************************************************************)
(* Bounds of the model                                                     *)
(***************************************************************************)
\* files hold up to MaxChunks full chunks plus a partial one
MaxChunks == 2

\* a sender that is not server.cpp makes up to MaxPeerWrites writes after the
\* handshake
MaxPeerWrites == 4

\* send_exact and recv_exact run alone move buffers of up to MaxBuf bytes
MaxBuf == 4

\* and each of the two meets up to MaxEintr interrupted calls
MaxEintr == 2

\* the two client processes that connect to the server, one after the other
\* or at the same time
Clients == {1, 2}

\* cfd while no client is accepted (accept returns a negative value on failure)
NoClient == -1

(***************************************************************************)
(* Bytes, strings and machine words                                        *)
(***************************************************************************)
Min(a, b) == IF a < b THEN a ELSE b

Reverse(s) == [i \in 1..Len(s) |-> s[Len(s) + 1 - i]]

Take(s, n) == SubSeq(s, 1, n)

Drop(s, n) == SubSeq(s, n + 1, Len(s))

\* a run of n copies of byte b
Rep(b, n) == [i \in 1..n |-> b]

\* the byte orders a host can have
Orders == {"LE", "BE"}

(***************************************************************************)
(* A uint32_t or uint64_t is held as the sequence of its base-256 digits,  *)
(* most significant digit first, so that a byte swap is an operation on    *)
(* the word and not the identity.  Only words below 2^24 are ever turned   *)
(* into a number; a larger word reads as 2^24.                             *)
(***************************************************************************)
\* the w-digit word of the number n (0 <= n < 2^24)
Word(n, w) ==
    [i \in 1..w |->
        IF i = w THEN n % 256
        ELSE IF i = w - 1 THEN (n \div 256) % 256
        ELSE IF i = w - 2 THEN (n \div 65536) % 256
        ELSE 0]

\* the number a word stands for
Num(d) ==
    LET w == Len(d)
    IN  IF \E i \in 1..(w - 3) : d[i] # 0
        THEN 16777216
        ELSE d[w - 2] * 65536 + d[w - 1] * 256 + d[w]

\* the bytes of a word as they lie in memory on a host of the given order
Mem(d, order) == IF order = "LE" THEN Reverse(d) ELSE d

\* the word that a run of memory bytes holds on a host of the given order
UnMem(bytes, order) == IF order = "LE" THEN Reverse(bytes) ELSE bytes

\* htonl / ntohl: swap the four bytes on a little-endian host
htonl(d, order) == IF order = "LE" THEN Reverse(d) ELSE d

ntohl(d, order) == IF order = "LE" THEN Reverse(d) ELSE d

\* htobe64 / be64toh (the __linux__ branch)
host_to_be64(d, order) == IF order = "LE" THEN Reverse(d) ELSE d

be64_to_host(d, order) == IF order = "LE" THEN Reverse(d) ELSE d

(***************************************************************************)
(* Frame codec: send_str / recv_str                                        *)
(***************************************************************************)
\* a send_str that leaves out htonl: the length goes out in host order
send_str_host_order(s, order) ==
    Mem(Word(Len(s), 4), order) \o (IF s # <<>> THEN s ELSE <<>>)

\* the bytes send_str(fd, s) hands to send_exact: the 4 bytes of
\* n = htonl(s.size()) as they lie in memory, then, unless s is empty, s
send_str(s, order) ==
    LET n == htonl(Word(Len(s), 4), order)
    IN  Mem(n, order) \o (IF s # <<>> THEN s ELSE <<>>)

\* the bytes written on a wire w that its reader, having consumed rd of them,
\* has not yet read
Avail(w, rd) == Len(w) - rd

\* recv_str on a wire: the length n that its first recv_exact decodes
\* (n = ntohl(n) of the 4 bytes stored at &n)
recv_str_len(w, rd, order) ==
    Num(ntohl(UnMem(SubSeq(w, rd + 1, rd + 4), order), order))

\* the number of bytes recv_str needs before it can return: the header, and
\* once the header is there the header and the body
recv_str_need(w, rd, order) ==
    IF Avail(w, rd) < 4 THEN 4 ELSE 4 + recv_str_len(w, rd, order)

\* the string recv_str returns once recv_str_need bytes are there
recv_str(w, rd, order) ==
    LET n == recv_str_len(w, rd, order)
    IN  SubSeq(w, rd + 5, rd + 4 + n)

(***************************************************************************)
(* Inputs                                                                  *)
(***************************************************************************)
\* argv[1] and argv[2] of the server: "S" and "f1"
server_name == <<83>>

file_path == <<102, 49>>

\* the string literals of client.cpp
QueryLiteral == <<81, 117, 101, 114, 121, 32, 102, 105, 108, 101, 32, 110, 97, 109, 101>>

StartLiteral == <<83, 116, 97, 114, 116>>

\* the file sizes tried: around every multiple of CHUNK up to MaxChunks chunks
FileSizes == {k * CHUNK + d : k \in 0..MaxChunks, d \in {0, 1, CHUNK \div 2}}

\* the byte patterns a file repeats: all '0', all '1', and a mix of both
\* marker values with another byte
Patterns == {<<Ch0>>, <<Ch1>>, <<Ch1, Ch0, 65>>}

PatternFile(p, n) == [i \in 1..n |-> p[((i - 1) % Len(p)) + 1]]

\* the mixed pattern in every size, the other patterns in the sizes that are
\* a multiple of CHUNK or one byte more
Files ==
    {PatternFile(<<Ch1, Ch0, 65>>, n) : n \in FileSizes}
        \cup {PatternFile(p, k * CHUNK + d) : p \in Patterns, k \in 0..MaxChunks,
                                             d \in {0, 1}}

\* what a client sends: its name (argv[3]), its second string and its ready
\* string.  client.cpp always sends QueryLiteral and StartLiteral; the other
\* inputs are those of a peer that differs from it in the two frames only.
ClientInputs ==
    { [name |-> <<99>>, query |-> QueryLiteral, start |-> StartLiteral],
      [name |-> <<99>>, query |-> <<>>, start |-> <<>>] }

(***************************************************************************)
(* State                                                                   *)
(***************************************************************************)
VARIABLES
    file,           \* server: std::vector<char> file, read once before listen
    srvOrder,       \* byte order of the server's host
    cliOrder,       \* byte order of the clients' host
    input,          \* input[c]: what client c sends (name, query, start)
    peerWrites,     \* how many writes a sender that is not server.cpp has made
    backlog,        \* connections the kernel completed and accept has not returned
    srvPc,          \* the statement the server is at
    cfd,            \* server: the client whose connection cfd is
    sent,           \* server: uint64_t sent
    client_name,    \* server: std::string client_name
    cliPc,          \* cliPc[c]: the statement client c is at
    c_server_name,  \* client: std::string server_name
    c_file_name,    \* client: std::string file_name
    c_file_size,    \* client: uint64_t file_size
    recvd,          \* client: uint64_t recvd
    c2s,            \* c2s[c]: every byte client c wrote to its socket
    c2sRd,          \* c2sRd[c]: how many of them the server has read
    s2c,            \* s2c[c]: every byte the server wrote to the socket of client c
    s2cRd,          \* s2cRd[c]: how many of them client c has read
    cliFd,          \* cliFd[c]: client c's descriptor fd
    srvFd,          \* srvFd[c]: the server's descriptor cfd for client c
    ioAfterClose,   \* a send or recv was made on a descriptor that was not open
    srvErr,         \* what the server wrote to stderr before std::exit(1), or ""
    cliErr,         \* cliErr[c]: what client c wrote to stderr before std::exit(1)
    srvChunks,      \* srvChunks[c]: the payload lengths the server sent to c
    cliChunks,      \* cliChunks[c]: the lengths of the buffers client c printed
    delivered,      \* delivered[c]: the payload bytes client c printed, in order
    peerChunk,      \* the chunk size of a sender that is a reimplementation
    pipe,           \* a helper run alone: every byte written to its stream
    pipeRd,         \* a helper run alone: how many of them were read
    tx,             \* a helper run alone: the call that writes (its locals)
    rx              \* a helper run alone: the call that reads (its locals)

\* the state of the send and receive helpers when they are run alone, outside
\* the two main() functions
unitVars == <<pipe, pipeRd, tx, rx>>

envVars == <<file, srvOrder, cliOrder, input, peerWrites, peerChunk, unitVars>>

srvVars == <<srvPc, cfd, sent, client_name, srvErr>>

cliVars == <<cliPc, c_server_name, c_file_name, c_file_size, recvd, cliErr>>

chanVars == <<c2s, c2sRd, s2c, s2cRd>>

fdVars == <<cliFd, srvFd, ioAfterClose>>

histVars == <<srvChunks, cliChunks, delivered>>

vars == <<envVars, backlog, srvVars, cliVars, chanVars, fdVars, histVars>>

\* uint64_t file_size = file.size();
file_size == Len(file)

(***************************************************************************)
(* Descriptors.  st is "none" before the connection exists, then "open",   *)
(* then "closed"; closes counts how often the descriptor was closed.       *)
(***************************************************************************)
NewFd == [st |-> "none", closes |-> 0]

OpenFd == [st |-> "open", closes |-> 0]

\* a close that is forgotten
close_forgotten(f) == f

\* ::close(fd)
close(f) == [st |-> "closed", closes |-> f.closes + 1]

\* std::exit / return from main: the kernel closes what the process left open
exit_fd(f) ==
    IF f.st = "open" THEN [st |-> "closed", closes |-> f.closes + 1] ELSE f

\* a send or recv on descriptor f
Use(f) == ioAfterClose' = (ioAfterClose \/ f.st # "open")

\* the state once the server listens and before any client has connected
Start ==
    /\ srvOrder \in Orders
    /\ cliOrder \in Orders
    /\ peerWrites = 0
    /\ backlog = <<>>
    /\ srvPc = "accept"
    /\ cfd = NoClient
    /\ sent = 0
    /\ client_name = <<>>
    /\ srvErr = ""
    /\ cliErr = [c \in Clients |-> ""]
    /\ cliPc = [c \in Clients |-> "connect"]
    /\ c_server_name = [c \in Clients |-> <<>>]
    /\ c_file_name = [c \in Clients |-> <<>>]
    /\ c_file_size = [c \in Clients |-> 0]
    /\ recvd = [c \in Clients |-> 0]
    /\ c2s = [c \in Clients |-> <<>>]
    /\ c2sRd = [c \in Clients |-> 0]
    /\ s2c = [c \in Clients |-> <<>>]
    /\ s2cRd = [c \in Clients |-> 0]
    /\ cliFd = [c \in Clients |-> NewFd]
    /\ srvFd = [c \in Clients |-> NewFd]
    /\ ioAfterClose = FALSE
    /\ srvChunks = [c \in Clients |-> <<>>]
    /\ cliChunks = [c \in Clients |-> <<>>]
    /\ delivered = [c \in Clients |-> <<>>]

\* the sender is server.cpp and no helper is run alone
NoUnit ==
    /\ peerChunk = CHUNK
    /\ pipe = <<>>
    /\ pipeRd = 0
    /\ tx = [pc |-> "none"]
    /\ rx = [pc |-> "none"]

\* the first client to connect is client.cpp; the second is client.cpp or a
\* peer that differs from it in the two strings
Init ==
    /\ file \in Files
    /\ input \in {i \in [Clients -> ClientInputs] : i[1].query = QueryLiteral}
    /\ Start
    /\ NoUnit

(***************************************************************************)
(* What the peer of a connection sees                                      *)
(***************************************************************************)
\* the server's end of c's connection is gone: cfd was closed, or the server
\* process exited (which also resets connections it never accepted)
SrvEndClosed(c) == srvFd[c].st = "closed" \/ srvPc = "exited"

\* the client's end of c's connection is gone
CliEndClosed(c) == cliFd[c].st = "closed"

(***************************************************************************)
(* The server: main of server.cpp from the accept loop on                  *)
(***************************************************************************)
\* the statements at which the server receives from cfd
SrvRecvPcs == {"recv_name", "recv_query", "recv_start"}

\* the statements at which the server sends on cfd ("loop" is the test of the
\* stream loop, which a send of '1' or of the first '0' follows at once)
SrvSendPcs == {"send_sname", "send_fname", "send_size", "loop", "send_chunk",
               "send_zero2"}

\* the server writes bytes on cfd (send_exact returns after all are accepted)
SrvSend(bytes) ==
    /\ s2c' = [s2c EXCEPT ![cfd] = @ \o bytes]
    /\ Use(srvFd[cfd])
    /\ UNCHANGED <<c2s, c2sRd, s2cRd, cliFd, srvFd>>

\* the server consumes n bytes from cfd (recv_exact returns after all arrived)
SrvRecv(n) ==
    /\ Avail(c2s[cfd], c2sRd[cfd]) >= n
    /\ c2sRd' = [c2sRd EXCEPT ![cfd] = @ + n]
    /\ Use(srvFd[cfd])
    /\ UNCHANGED <<c2s, s2c, s2cRd, cliFd, srvFd>>

\* the number of bytes the server's pending recv_str needs
SrvNeed == recv_str_need(c2s[cfd], c2sRd[cfd], srvOrder)

\* the string the server's pending recv_str returns
SrvStr == recv_str(c2s[cfd], c2sRd[cfd], srvOrder)

\* a server that takes the next connection while it waits for a client
SrvAccept_any ==
    /\ srvPc \in {"accept", "recv_name", "recv_query", "recv_start"}
    /\ backlog # <<>>
    /\ cfd' = Head(backlog)
    /\ backlog' = Tail(backlog)
    /\ srvFd' = [srvFd EXCEPT ![Head(backlog)] = OpenFd]
    /\ srvPc' = "recv_name"
    /\ UNCHANGED <<envVars, sent, client_name, srvErr, cliVars, chanVars, cliFd,
                   ioAfterClose, histVars>>

\* int cfd = accept(lfd, ...);
SrvAccept ==
    /\ srvPc = "accept"
    /\ backlog # <<>>
    /\ cfd' = Head(backlog)
    /\ backlog' = Tail(backlog)
    /\ srvFd' = [srvFd EXCEPT ![Head(backlog)] = OpenFd]
    /\ srvPc' = "recv_name"
    /\ UNCHANGED <<envVars, sent, client_name, srvErr, cliVars, chanVars, cliFd,
                   ioAfterClose, histVars>>

\* std::string client_name = recv_str(cfd);
SrvRecvName ==
    /\ srvPc = "recv_name"
    /\ SrvRecv(SrvNeed)
    /\ client_name' = SrvStr
    /\ srvPc' = "recv_query"
    /\ UNCHANGED <<envVars, backlog, cfd, sent, srvErr, cliVars, histVars>>

\* a server that does not wait for the second string
SrvRecvQuery_skipped ==
    /\ srvPc = "recv_query"
    /\ srvPc' = "send_sname"
    /\ UNCHANGED <<envVars, backlog, cfd, sent, client_name, srvErr, cliVars,
                   chanVars, fdVars, histVars>>

\* std::string query = recv_str(cfd); (void)query;
SrvRecvQuery ==
    /\ srvPc = "recv_query"
    /\ SrvRecv(SrvNeed)
    /\ srvPc' = "send_sname"
    /\ UNCHANGED <<envVars, backlog, cfd, sent, client_name, srvErr, cliVars,
                   histVars>>

\* uint64_t netsize = host_to_be64(file_size);  the 8 bytes at &netsize
netsize == Mem(host_to_be64(Word(file_size, 8), srvOrder), srvOrder)

\* send_str(cfd, server_name);
SrvSendServerName ==
    /\ srvPc = "send_sname"
    /\ SrvSend(send_str(server_name, srvOrder))
    /\ srvPc' = "send_fname"
    /\ UNCHANGED <<envVars, backlog, cfd, sent, client_name, srvErr, cliVars,
                   histVars>>

\* send_str(cfd, file_path);
SrvSendFilePath ==
    /\ srvPc = "send_fname"
    /\ SrvSend(send_str(file_path, srvOrder))
    /\ srvPc' = "send_size"
    /\ UNCHANGED <<envVars, backlog, cfd, sent, client_name, srvErr, cliVars,
                   histVars>>

\* send_exact(cfd, &netsize, 8);
SrvSendSize ==
    /\ srvPc = "send_size"
    /\ SrvSend(netsize)
    /\ srvPc' = "recv_start"
    /\ UNCHANGED <<envVars, backlog, cfd, sent, client_name, srvErr, cliVars,
                   histVars>>

\* a counter declared outside the accept loop, which keeps its value
InitSent_kept(old) == old

\* uint64_t sent = 0;  (a new variable in every round of the accept loop)
InitSent(old) == 0

\* a server that goes on only when the ready string reads "Start"
SrvRecvStart_checked ==
    /\ srvPc = "recv_start"
    /\ SrvRecv(recv_str_need(c2s[cfd], c2sRd[cfd], srvOrder))
    /\ recv_str(c2s[cfd], c2sRd[cfd], srvOrder) = StartLiteral
    /\ sent' = 0
    /\ srvPc' = "loop"
    /\ UNCHANGED <<envVars, backlog, cfd, client_name, srvErr, cliVars, histVars>>

\* std::string start = recv_str(cfd); (void)start;  then  uint64_t sent = 0;
SrvRecvStart ==
    /\ srvPc = "recv_start"
    /\ SrvRecv(SrvNeed)
    /\ sent' = InitSent(sent)
    /\ srvPc' = "loop"
    /\ UNCHANGED <<envVars, backlog, cfd, client_name, srvErr, cliVars, histVars>>

\* a loop test that stops one chunk early
MoreToSend_short(done, size) == done + CHUNK < size

\* while (sent < file_size)
MoreToSend(done, size) == done < size

\* a chunk length that is one byte short of CHUNK
ChunkLen_short(size, done) == Min(CHUNK - 1, size - done)

\* size_t n = std::min<uint64_t>(CHUNK, file_size - sent);
ChunkLen(size, done) == Min(CHUNK, size - done)

\* n bytes taken at &file[0] whatever sent is
Chunk_from_start(f, done, n) == SubSeq(f, 1, n)

\* the n bytes at &file[sent]
Chunk(f, done, n) == SubSeq(f, done + 1, done + n)

\* char flag = '1';
flag1 == Ch1

\* char zero = '0';
zero == Ch0

\* while (sent < file_size) { char flag = '1'; send_exact(cfd, &flag, 1);
SrvSendFlag ==
    /\ srvPc = "loop"
    /\ MoreToSend(sent, file_size)
    /\ SrvSend(<<flag1>>)
    /\ srvPc' = "send_chunk"
    /\ UNCHANGED <<envVars, backlog, cfd, sent, client_name, srvErr, cliVars,
                   histVars>>

\* size_t n = ...; send_exact(cfd, &file[sent], n); sent += n; }
SrvSendChunk ==
    /\ srvPc = "send_chunk"
    /\ LET n == ChunkLen(file_size, sent)
       IN  /\ SrvSend(Chunk(file, sent, n))
           /\ sent' = sent + n
           /\ srvChunks' = [srvChunks EXCEPT ![cfd] = Append(@, n)]
    /\ srvPc' = "loop"
    /\ UNCHANGED <<envVars, backlog, cfd, client_name, srvErr, cliVars, cliChunks,
                   delivered>>

\* (the loop has ended)  char zero = '0'; send_exact(cfd, &zero, 1);
SrvSendZero1 ==
    /\ srvPc = "loop"
    /\ ~MoreToSend(sent, file_size)
    /\ SrvSend(<<zero>>)
    /\ srvPc' = "send_zero2"
    /\ UNCHANGED <<envVars, backlog, cfd, sent, client_name, srvErr, cliVars,
                   histVars>>

\* a sentinel of one byte: the second send_exact is left out
SrvSendZero2_omitted ==
    /\ srvPc = "send_zero2"
    /\ srvPc' = "close"
    /\ UNCHANGED <<envVars, backlog, cfd, sent, client_name, srvErr, cliVars,
                   chanVars, fdVars, histVars>>

\* send_exact(cfd, &zero, 1);
SrvSendZero2 ==
    /\ srvPc = "send_zero2"
    /\ SrvSend(<<zero>>)
    /\ srvPc' = "close"
    /\ UNCHANGED <<envVars, backlog, cfd, sent, client_name, srvErr, cliVars,
                   histVars>>

\* a server that keeps the connection and serves the same client again
SrvClose_again ==
    /\ srvPc = "close"
    /\ srvPc' = "recv_name"
    /\ UNCHANGED <<envVars, backlog, cfd, sent, client_name, srvErr, cliVars,
                   chanVars, fdVars, histVars>>

\* ::close(cfd); }  and the next round of while (true): cfd and client_name
\* are variables of the loop body
SrvClose ==
    /\ srvPc = "close"
    /\ srvFd' = [srvFd EXCEPT ![cfd] = close(@)]
    /\ cfd' = NoClient
    /\ client_name' = <<>>
    /\ srvPc' = "accept"
    /\ UNCHANGED <<envVars, backlog, sent, srvErr, cliVars, chanVars, cliFd,
                   ioAfterClose, histVars>>

(***************************************************************************)
(* The server's failure paths                                              *)
(***************************************************************************)
\* the bytes the send statement at srvPc hands to send_exact
SrvPending ==
    CASE srvPc = "send_sname" -> send_str(server_name, srvOrder)
      [] srvPc = "send_fname" -> send_str(file_path, srvOrder)
      [] srvPc = "send_size" -> netsize
      [] srvPc = "loop" -> IF MoreToSend(sent, file_size) THEN <<flag1>> ELSE <<zero>>
      [] srvPc = "send_chunk" -> Chunk(file, sent, ChunkLen(file_size, sent))
      [] srvPc = "send_zero2" -> <<zero>>
      [] OTHER -> <<>>

\* how many bytes of an n-byte buffer the transport may have taken before a
\* send failed: none, one, half of them, all but one
Cuts(n) == {k \in {0, 1, n \div 2, n - 1} : 0 <= k /\ k < n}

\* std::exit(1): the process ends with msg on stderr and the kernel closes
\* the descriptors it left open
SrvExit(msg) ==
    /\ srvPc' = "exited"
    /\ srvErr' = msg
    /\ srvFd' = [c \in Clients |-> exit_fd(srvFd[c])]
    /\ UNCHANGED <<envVars, backlog, cfd, sent, client_name, cliVars, c2s, c2sRd,
                   s2cRd, cliFd, ioAfterClose, histVars>>

\* recv_exact: if (n == 0) { std::cerr << "[server] client closed early\n";
\* std::exit(1); }   recv returns 0 once the client's end is closed and the
\* bytes it sent are used up
SrvRecvEof ==
    /\ srvPc \in SrvRecvPcs
    /\ CliEndClosed(cfd)
    /\ Avail(c2s[cfd], c2sRd[cfd]) < SrvNeed
    /\ s2c' = s2c
    /\ SrvExit("client closed early")

\* if (cfd < 0) { ...; die("accept"); }  and in recv_exact
\* if (n < 0) { ...; die("recv"); }   for an error other than EINTR
SrvRecvDie ==
    /\ srvPc \in {"accept"} \cup SrvRecvPcs
    /\ s2c' = s2c
    /\ SrvExit("die")

\* in send_exact: if (n < 0) { ...; die("send"); }  for an error other than
\* EINTR, after the transport took k bytes of the buffer
SrvSendDie ==
    /\ srvPc \in SrvSendPcs
    /\ \E k \in Cuts(Len(SrvPending)) :
          s2c' = [s2c EXCEPT ![cfd] = @ \o Take(SrvPending, k)]
    /\ SrvExit("die")

(***************************************************************************)
(* The client: main of client.cpp from connect on                          *)
(***************************************************************************)
\* the statements at which a client receives from fd
CliRecvPcs == {"recv_sname", "recv_fname", "recv_size", "recv_flag", "recv_second",
               "recv_chunk"}

\* the statements at which a client sends on fd
CliSendPcs == {"send_name", "send_query", "send_start"}

\* client c writes bytes on fd
CliSend(c, bytes) ==
    /\ c2s' = [c2s EXCEPT ![c] = @ \o bytes]
    /\ Use(cliFd[c])
    /\ UNCHANGED <<c2sRd, s2c, s2cRd, cliFd, srvFd>>

\* client c consumes n bytes from fd
CliRecv(c, n) ==
    /\ Avail(s2c[c], s2cRd[c]) >= n
    /\ s2cRd' = [s2cRd EXCEPT ![c] = @ + n]
    /\ Use(cliFd[c])
    /\ UNCHANGED <<c2s, c2sRd, s2c, cliFd, srvFd>>

\* the n bytes client c's recv_exact stores
CliBuf(c, n) == SubSeq(s2c[c], s2cRd[c] + 1, s2cRd[c] + n)

\* if (connect(fd, ...) < 0) die("connect");   the connection succeeds
CliConnect(c) ==
    /\ cliPc[c] = "connect"
    /\ srvPc # "exited"
    \* the clients are alike: they connect in the order of their numbers
    /\ \A d \in Clients : d < c => cliPc[d] # "connect"
    /\ backlog' = Append(backlog, c)
    /\ cliFd' = [cliFd EXCEPT ![c] = OpenFd]
    /\ cliPc' = [cliPc EXCEPT ![c] = "send_name"]
    /\ UNCHANGED <<envVars, srvVars, c_server_name, c_file_name, c_file_size, recvd,
                   cliErr, chanVars, srvFd, ioAfterClose, histVars>>

\* send_str(fd, name);
CliSendName(c) ==
    /\ cliPc[c] = "send_name"
    /\ CliSend(c, send_str(input[c].name, cliOrder))
    /\ cliPc' = [cliPc EXCEPT ![c] = "send_query"]
    /\ UNCHANGED <<envVars, backlog, srvVars, c_server_name, c_file_name,
                   c_file_size, recvd, cliErr, histVars>>

\* send_str(fd, "Query file name");
CliSendQuery(c) ==
    /\ cliPc[c] = "send_query"
    /\ CliSend(c, send_str(input[c].query, cliOrder))
    /\ cliPc' = [cliPc EXCEPT ![c] = "recv_sname"]
    /\ UNCHANGED <<envVars, backlog, srvVars, c_server_name, c_file_name,
                   c_file_size, recvd, cliErr, histVars>>

\* std::string server_name = recv_str(fd);
CliRecvServerName(c) ==
    /\ cliPc[c] = "recv_sname"
    /\ CliRecv(c, recv_str_need(s2c[c], s2cRd[c], cliOrder))
    /\ c_server_name' = [c_server_name EXCEPT ![c] = recv_str(s2c[c], s2cRd[c], cliOrder)]
    /\ cliPc' = [cliPc EXCEPT ![c] = "recv_fname"]
    /\ UNCHANGED <<envVars, backlog, srvVars, c_file_name, c_file_size, recvd,
                   cliErr, histVars>>

\* std::string file_name = recv_str(fd);
CliRecvFileName(c) ==
    /\ cliPc[c] = "recv_fname"
    /\ CliRecv(c, recv_str_need(s2c[c], s2cRd[c], cliOrder))
    /\ c_file_name' = [c_file_name EXCEPT ![c] = recv_str(s2c[c], s2cRd[c], cliOrder)]
    /\ cliPc' = [cliPc EXCEPT ![c] = "recv_size"]
    /\ UNCHANGED <<envVars, backlog, srvVars, c_server_name, c_file_size, recvd,
                   cliErr, histVars>>

\* uint64_t netsize = 0; recv_exact(fd, &netsize, 8);
\* uint64_t file_size = be64_to_host(netsize);
CliRecvSize(c) ==
    /\ cliPc[c] = "recv_size"
    /\ CliRecv(c, 8)
    /\ c_file_size' = [c_file_size EXCEPT ![c] =
                          Num(be64_to_host(UnMem(CliBuf(c, 8), cliOrder), cliOrder))]
    /\ cliPc' = [cliPc EXCEPT ![c] = "send_start"]
    /\ UNCHANGED <<envVars, backlog, srvVars, c_server_name, c_file_name, recvd,
                   cliErr, histVars>>

\* a client that goes on to receive without sending its ready string
CliSendStart_silent(c) ==
    /\ cliPc[c] = "send_start"
    /\ recvd' = [recvd EXCEPT ![c] = 0]
    /\ cliPc' = [cliPc EXCEPT ![c] = "recv_flag"]
    /\ UNCHANGED <<envVars, backlog, srvVars, c_server_name, c_file_name,
                   c_file_size, cliErr, chanVars, fdVars, histVars>>

\* send_str(fd, "Start");  then  uint64_t recvd = 0;
CliSendStart(c) ==
    /\ cliPc[c] = "send_start"
    /\ CliSend(c, send_str(input[c].start, cliOrder))
    /\ recvd' = [recvd EXCEPT ![c] = 0]
    /\ cliPc' = [cliPc EXCEPT ![c] = "recv_flag"]
    /\ UNCHANGED <<envVars, backlog, srvVars, c_server_name, c_file_name,
                   c_file_size, cliErr, histVars>>

\* a client that takes every marker but '0' for '1'
AfterFlag_unchecked(flag) ==
    IF flag = Ch0 THEN "recv_second" ELSE "recv_chunk"

\* the statement that follows  char flag = 0; recv_exact(fd, &flag, 1);
\*   if (flag == '0') { char second = 0; recv_exact(fd, &second, 1); ... break; }
\*   if (flag != '1') { std::cerr << "[client] protocol error\n"; std::exit(1); }
\*   size_t want = ...; recv_exact(fd, &buf[0], want);
AfterFlag(flag) ==
    IF flag = Ch0 THEN "recv_second"
    ELSE IF flag # Ch1 THEN "failed"
    ELSE "recv_chunk"

\* char flag = 0; recv_exact(fd, &flag, 1);  and the two tests of flag
CliRecvFlag(c) ==
    /\ cliPc[c] = "recv_flag"
    /\ Avail(s2c[c], s2cRd[c]) >= 1
    /\ s2cRd' = [s2cRd EXCEPT ![c] = @ + 1]
    /\ Use(cliFd[c])
    /\ LET next == AfterFlag(CliBuf(c, 1)[1])
       IN  /\ cliPc' = [cliPc EXCEPT ![c] = next]
           /\ cliFd' = [cliFd EXCEPT ![c] = IF next = "failed" THEN exit_fd(@) ELSE @]
           /\ cliErr' = [cliErr EXCEPT ![c] =
                            IF next = "failed" THEN "protocol error" ELSE @]
    /\ UNCHANGED <<envVars, backlog, srvVars, c_server_name, c_file_name,
                   c_file_size, recvd, c2s, c2sRd, s2c, srvFd, histVars>>

\* char second = 0; recv_exact(fd, &second, 1);  then break
CliRecvSecond(c) ==
    /\ cliPc[c] = "recv_second"
    /\ CliRecv(c, 1)
    /\ cliPc' = [cliPc EXCEPT ![c] = "close"]
    /\ UNCHANGED <<envVars, backlog, srvVars, c_server_name, c_file_name,
                   c_file_size, recvd, cliErr, histVars>>

\* a client that asks for all that is outstanding after a '1'
Want_rest(size, done) == size - done

\* a client that asks for a full chunk after every '1'
Want_chunk(size, done) == CHUNK

\* size_t want = std::min<uint64_t>(CHUNK, file_size - recvd);
Want(size, done) == Min(CHUNK, size - done)

\* std::string buf(want, '\0'); recv_exact(fd, &buf[0], want);
\* std::cout << buf; recvd += want;
CliRecvChunk(c) ==
    /\ cliPc[c] = "recv_chunk"
    /\ LET want == Want(c_file_size[c], recvd[c])
       IN  /\ Avail(s2c[c], s2cRd[c]) >= want
           /\ s2cRd' = [s2cRd EXCEPT ![c] = @ + want]
           \* with want = 0 recv_exact makes no call on fd
           /\ ioAfterClose' = (ioAfterClose \/ (want > 0 /\ cliFd[c].st # "open"))
           /\ delivered' = [delivered EXCEPT ![c] = @ \o CliBuf(c, want)]
           /\ cliChunks' = [cliChunks EXCEPT ![c] = Append(@, want)]
           /\ recvd' = [recvd EXCEPT ![c] = @ + want]
    /\ cliPc' = [cliPc EXCEPT ![c] = "recv_flag"]
    /\ UNCHANGED <<envVars, backlog, srvVars, c_server_name, c_file_name,
                   c_file_size, cliErr, c2s, c2sRd, s2c, cliFd, srvFd, srvChunks>>

\* ::close(fd); return 0;
CliClose(c) ==
    /\ cliPc[c] = "close"
    /\ cliFd' = [cliFd EXCEPT ![c] = exit_fd(close(@))]
    /\ cliPc' = [cliPc EXCEPT ![c] = "done"]
    /\ UNCHANGED <<envVars, backlog, srvVars, c_server_name, c_file_name,
                   c_file_size, recvd, cliErr, chanVars, srvFd, ioAfterClose,
                   histVars>>

(***************************************************************************)
(* The client's failure paths                                              *)
(***************************************************************************)
\* the bytes the send statement client c is at hands to send_exact
CliPending(c) ==
    CASE cliPc[c] = "send_name" -> send_str(input[c].name, cliOrder)
      [] cliPc[c] = "send_query" -> send_str(input[c].query, cliOrder)
      [] cliPc[c] = "send_start" -> send_str(input[c].start, cliOrder)
      [] OTHER -> <<>>

\* the number of bytes client c's pending recv_exact or recv_str needs
CliNeed(c) ==
    CASE cliPc[c] \in {"recv_sname", "recv_fname"} ->
             recv_str_need(s2c[c], s2cRd[c], cliOrder)
      [] cliPc[c] = "recv_size" -> 8
      [] cliPc[c] \in {"recv_flag", "recv_second"} -> 1
      [] cliPc[c] = "recv_chunk" -> Want(c_file_size[c], recvd[c])
      [] OTHER -> 0

\* std::exit(1): the process ends with msg on stderr and the kernel closes
\* the descriptor it left open
CliExit(c, msg) ==
    /\ cliPc' = [cliPc EXCEPT ![c] = "failed"]
    /\ cliErr' = [cliErr EXCEPT ![c] = msg]
    /\ cliFd' = [cliFd EXCEPT ![c] = exit_fd(@)]
    /\ UNCHANGED <<envVars, backlog, srvVars, c_server_name, c_file_name,
                   c_file_size, recvd, c2sRd, s2c, s2cRd, srvFd, ioAfterClose,
                   histVars>>

\* recv_exact: if (n == 0) { std::cerr << "[client] server closed early\n";
\* std::exit(1); }   recv returns 0 once the server's end is closed and the
\* bytes it sent are used up
CliRecvEof(c) ==
    /\ cliPc[c] \in CliRecvPcs
    /\ SrvEndClosed(c)
    /\ Avail(s2c[c], s2cRd[c]) < CliNeed(c)
    /\ c2s' = c2s
    /\ CliExit(c, "server closed early")

\* if (connect(...) < 0) die("connect");  and in recv_exact
\* if (n < 0) { ...; die("recv"); }   for an error other than EINTR
CliRecvDie(c) ==
    /\ \/ cliPc[c] = "connect"
       \/ cliPc[c] \in CliRecvPcs /\ CliNeed(c) > 0
    /\ c2s' = c2s
    /\ CliExit(c, "die")

\* in send_exact: if (n < 0) { ...; die("send"); }  for an error other than
\* EINTR, after the transport took k bytes of the buffer
CliSendDie(c) ==
    /\ cliPc[c] \in CliSendPcs
    /\ \E k \in Cuts(Len(CliPending(c))) :
          c2s' = [c2s EXCEPT ![c] = @ \o Take(CliPending(c), k)]
    /\ CliExit(c, "die")

(***************************************************************************)
(* The system: one server and the clients, over reliable FIFO connections  *)
(***************************************************************************)
Server ==
    \/ SrvAccept
    \/ SrvRecvName
    \/ SrvRecvQuery
    \/ SrvSendServerName
    \/ SrvSendFilePath
    \/ SrvSendSize
    \/ SrvRecvStart
    \/ SrvSendFlag
    \/ SrvSendChunk
    \/ SrvSendZero1
    \/ SrvSendZero2
    \/ SrvClose

Client(c) ==
    \/ CliConnect(c)
    \/ CliSendName(c)
    \/ CliSendQuery(c)
    \/ CliRecvServerName(c)
    \/ CliRecvFileName(c)
    \/ CliRecvSize(c)
    \/ CliSendStart(c)
    \/ CliRecvFlag(c)
    \/ CliRecvSecond(c)
    \/ CliRecvChunk(c)
    \/ CliClose(c)

\* no call fails: the connections are reliable and both programs run to
\* their end
Next == Server \/ \E c \in Clients : Client(c)

Spec == Init /\ [][Next]_vars

\* the same with both programs scheduled fairly: a process that can take a
\* step does take one (each is a process of its own, blocked only in accept,
\* connect, send or recv), on files of every size, of the mixed pattern
LiveInit ==
    /\ file \in {PatternFile(<<Ch1, Ch0, 65>>, n) : n \in FileSizes}
    /\ \E i \in ClientInputs : input = [c \in Clients |-> i]
    /\ Start
    /\ NoUnit

LiveSpec ==
    /\ LiveInit
    /\ [][Next]_vars
    /\ WF_vars(Server)
    /\ \A c \in Clients : WF_vars(Client(c))

\* calls may fail: a transport error ends the process that meets it, and the
\* other side finds the connection closed
Faults ==
    \/ SrvRecvEof
    \/ SrvRecvDie
    \/ SrvSendDie
    \/ \E c \in Clients : CliRecvEof(c)
    \/ \E c \in Clients : CliRecvDie(c)
    \/ \E c \in Clients : CliSendDie(c)

\* the faults are tried on files of every size, of the mixed pattern, with
\* the strings client.cpp sends
FaultInit ==
    /\ file \in {PatternFile(<<Ch1, Ch0, 65>>, n) : n \in FileSizes}
    /\ input = [c \in Clients |->
                   [name |-> <<99>>, query |-> QueryLiteral, start |-> StartLiteral]]
    /\ Start
    /\ NoUnit

FaultNext == Next \/ Faults

FaultSpec == FaultInit /\ [][FaultNext]_vars

\* the same faults on sessions of no chunk, of one chunk and of two chunks
SessionInit ==
    /\ file \in {PatternFile(<<Ch1, Ch0, 65>>, n) : n \in {0, 1, CHUNK, CHUNK + 1}}
    /\ input = [c \in Clients |->
                   [name |-> <<99>>, query |-> QueryLiteral, start |-> StartLiteral]]
    /\ Start
    /\ NoUnit

SessionSpec == SessionInit /\ [][FaultNext]_vars

(***************************************************************************)
(* A sender that does not conform.  It is server.cpp up to the ready       *)
(* frame; then, where server.cpp runs its stream loop, it writes what it   *)
(* likes, closes the connection and ends.  It claims, in the metadata, a   *)
(* file of 0, 1 or CHUNK + 1 bytes.                                        *)
(***************************************************************************)
\* what the sender may write in one write: a '0', a '1', another byte, or
\* CHUNK bytes that are no marker
PeerUnits == {<<Ch0>>, <<Ch1>>, <<65>>, Rep(65, CHUNK)}

PeerWrite(u) ==
    /\ srvPc = "loop"
    /\ peerWrites < MaxPeerWrites
    /\ SrvSend(u)
    /\ peerWrites' = peerWrites + 1
    /\ UNCHANGED <<file, srvOrder, cliOrder, input, peerChunk, unitVars, backlog,
                   srvVars, cliVars, histVars>>

PeerClose ==
    /\ srvPc = "loop"
    /\ srvFd' = [srvFd EXCEPT ![cfd] = close(@)]
    /\ srvPc' = "exited"
    /\ UNCHANGED <<envVars, backlog, cfd, sent, client_name, srvErr, cliVars,
                   chanVars, cliFd, ioAfterClose, histVars>>

AdvInit ==
    /\ file \in {PatternFile(<<65>>, n) : n \in {0, 1, CHUNK + 1}}
    /\ input = [c \in Clients |->
                   [name |-> <<99>>, query |-> QueryLiteral, start |-> StartLiteral]]
    /\ Start
    /\ NoUnit

AdvNext ==
    \/ SrvAccept
    \/ SrvRecvName
    \/ SrvRecvQuery
    \/ SrvSendServerName
    \/ SrvSendFilePath
    \/ SrvSendSize
    \/ SrvRecvStart
    \/ \E u \in PeerUnits : PeerWrite(u)
    \/ PeerClose
    \/ \E c \in Clients : Client(c)
    \/ \E c \in Clients : CliRecvEof(c)

AdvSpec == AdvInit /\ [][AdvNext]_vars

(***************************************************************************)
(* A sender that is a reimplementation.  It is server.cpp but for its      *)
(* chunk size: where server.cpp has CHUNK it has peerChunk, a number from  *)
(* 1 to CHUNK.  The client is client.cpp.  No call fails; the client never *)
(* waits for more bytes than such a sender writes, as it takes the         *)
(* sender's markers for payload where the chunk sizes differ.              *)
(***************************************************************************)
\* the chunk sizes tried
PeerChunks == {1, CHUNK \div 2, CHUNK - 1, CHUNK}

\* size_t n = std::min<uint64_t>(peerChunk, file_size - sent);
\* send_exact(cfd, &file[sent], n); sent += n;
PeerSendChunk ==
    /\ srvPc = "send_chunk"
    /\ LET n == Min(peerChunk, file_size - sent)
       IN  /\ SrvSend(Chunk(file, sent, n))
           /\ sent' = sent + n
           /\ srvChunks' = [srvChunks EXCEPT ![cfd] = Append(@, n)]
    /\ srvPc' = "loop"
    /\ UNCHANGED <<envVars, backlog, cfd, client_name, srvErr, cliVars, cliChunks,
                   delivered>>

ReimplInit ==
    /\ file \in {PatternFile(<<Ch1, Ch0, 65>>, n) : n \in FileSizes}
    /\ input = [c \in Clients |->
                   [name |-> <<99>>, query |-> QueryLiteral, start |-> StartLiteral]]
    /\ Start
    /\ peerChunk \in PeerChunks
    /\ pipe = <<>>
    /\ pipeRd = 0
    /\ tx = [pc |-> "none"]
    /\ rx = [pc |-> "none"]

ReimplNext ==
    \/ SrvAccept
    \/ SrvRecvName
    \/ SrvRecvQuery
    \/ SrvSendServerName
    \/ SrvSendFilePath
    \/ SrvSendSize
    \/ SrvRecvStart
    \/ SrvSendFlag
    \/ PeerSendChunk
    \/ SrvSendZero1
    \/ SrvSendZero2
    \/ SrvClose
    \/ \E c \in Clients : Client(c)

ReimplSpec == ReimplInit /\ [][ReimplNext]_vars

(***************************************************************************)
(* The conversions run alone.  A writer on the server's host frames a      *)
(* string with send_str and then writes a 64-bit size, as main does with   *)
(* file_path and netsize; a reader on the client's host takes them off the *)
(* stream with recv_str and recv_exact.  Either program may have been      *)
(* built from any branch of the #if that selects the 64-bit conversion.    *)
(***************************************************************************)
\* the branches of  #if defined(__APPLE__) / #elif defined(__linux__) / #else
Builds == {"apple", "linux", "generic"}

\* bitwise or of two bytes
RECURSIVE BitOr(_, _)
BitOr(a, b) ==
    IF a = 0 /\ b = 0 THEN 0
    ELSE (IF a % 2 = 1 \/ b % 2 = 1 THEN 1 ELSE 0) + 2 * BitOr(a \div 2, b \div 2)

\* x | y on 64-bit words
Or64(d, e) == [i \in 1..8 |-> BitOr(d[i], e[i])]

\* x >> 32  and  x << 32  on 64-bit words
Shr32(d) == <<0, 0, 0, 0>> \o SubSeq(d, 1, 4)

Shl32(d) == SubSeq(d, 5, 8) \o <<0, 0, 0, 0>>

\* x & 0xffffffff
Low32(d) == <<0, 0, 0, 0>> \o SubSeq(d, 5, 8)

\* uint32_t(x)  and  (uint64_t)y
To32(d) == SubSeq(d, 5, 8)

To64(d) == <<0, 0, 0, 0>> \o d

\* a fallback that swaps the bytes of each half and leaves the halves in place
host_to_be64_generic_halves(d, order) ==
    IF order = "LE"
    THEN Or64(Shl32(To64(htonl(To32(Shr32(d)), order))),
              To64(htonl(To32(Low32(d)), order)))
    ELSE d

\* the #else branch:
\*   #if __BYTE_ORDER__ == __ORDER_LITTLE_ENDIAN__
\*     return (uint64_t)htonl(uint32_t(x >> 32)) |
\*            ((uint64_t)htonl(uint32_t(x & 0xffffffff)) << 32);
\*   #else  return x;
host_to_be64_generic(d, order) ==
    IF order = "LE"
    THEN Or64(To64(htonl(To32(Shr32(d)), order)),
              Shl32(To64(htonl(To32(Low32(d)), order))))
    ELSE d

\* static inline uint64_t be64_to_host(uint64_t x) { return host_to_be64(x); }
be64_to_host_generic(d, order) == host_to_be64_generic(d, order)

\* host_to_be64 / be64_to_host of a build (OSSwapHostToBigInt64 and htobe64
\* both swap the eight bytes on a little-endian host)
host_to_be64_of(build, d, order) ==
    IF build = "generic" THEN host_to_be64_generic(d, order)
    ELSE host_to_be64(d, order)

be64_to_host_of(build, d, order) ==
    IF build = "generic" THEN be64_to_host_generic(d, order)
    ELSE be64_to_host(d, order)

\* the strings framed: empty, a zero byte, bytes that read as a length,
\* a short text, and one whose length needs two bytes
UnitStrings == {<<>>, <<0>>, <<0, 0, 0, 1>>, <<65, 66, 67>>, Rep(66, 2 * CHUNK + 58)}

\* the sizes sent: those of the files, and words with a byte in every place
UnitWords ==
    {Word(n, 8) : n \in FileSizes}
        \cup {<<1, 2, 3, 4, 5, 6, 7, 8>>, <<0, 0, 0, 0, 255, 255, 255, 255>>,
              <<128, 0, 0, 0, 0, 0, 0, 1>>}

\* send_str(fd, s);
UnitSendStr ==
    /\ tx.pc = "send_str"
    /\ pipe' = pipe \o send_str(tx.s, srvOrder)
    /\ tx' = [tx EXCEPT !.pc = "send_size"]
    /\ UNCHANGED pipeRd
    /\ UNCHANGED rx

\* uint64_t netsize = host_to_be64(x); send_exact(fd, &netsize, 8);
UnitSendSize ==
    /\ tx.pc = "send_size"
    /\ pipe' = pipe \o Mem(host_to_be64_of(tx.build, tx.x, srvOrder), srvOrder)
    /\ tx' = [tx EXCEPT !.pc = "returned"]
    /\ UNCHANGED pipeRd
    /\ UNCHANGED rx

\* std::string s = recv_str(fd);
UnitRecvStr ==
    /\ rx.pc = "recv_str"
    /\ Avail(pipe, pipeRd) >= recv_str_need(pipe, pipeRd, cliOrder)
    /\ pipeRd' = pipeRd + recv_str_need(pipe, pipeRd, cliOrder)
    /\ rx' = [rx EXCEPT !.pc = "recv_size", !.s = recv_str(pipe, pipeRd, cliOrder)]
    /\ UNCHANGED pipe
    /\ UNCHANGED tx

\* uint64_t netsize = 0; recv_exact(fd, &netsize, 8); x = be64_to_host(netsize);
UnitRecvSize ==
    /\ rx.pc = "recv_size"
    /\ Avail(pipe, pipeRd) >= 8
    /\ pipeRd' = pipeRd + 8
    /\ rx' = [rx EXCEPT !.pc = "returned",
                        !.x = be64_to_host_of(rx.build,
                                  UnMem(SubSeq(pipe, pipeRd + 1, pipeRd + 8), cliOrder),
                                  cliOrder)]
    /\ UNCHANGED pipe
    /\ UNCHANGED tx

\* the two programs have not started: no client has connected
Idle ==
    /\ file = <<>>
    /\ input = [c \in Clients |->
                   [name |-> <<99>>, query |-> QueryLiteral, start |-> StartLiteral]]
    /\ peerChunk = CHUNK
    /\ Start

CodecInit ==
    /\ Idle
    /\ pipe = <<>>
    /\ pipeRd = 0
    /\ \E str \in UnitStrings, w \in UnitWords, b \in Builds :
          tx = [pc |-> "send_str", s |-> str, x |-> w, build |-> b]
    /\ \E b \in Builds :
          rx = [pc |-> "recv_str", s |-> <<>>, x |-> Word(0, 8), build |-> b]

CodecNext ==
    /\ \/ UnitSendStr
       \/ UnitSendSize
       \/ UnitRecvStr
       \/ UnitRecvSize
    /\ UNCHANGED <<file, srvOrder, cliOrder, input, peerWrites, peerChunk, backlog,
                   srvVars, cliVars, chanVars, fdVars, histVars>>

CodecSpec == CodecInit /\ [][CodecNext]_vars

(***************************************************************************)
(* send_exact and recv_exact run alone, one ::send or ::recv call a step.  *)
(* A writer calls send_exact(fd, buf, len) once and then closes its end;   *)
(* a reader calls recv_exact(fd, buf, len) once on the other end.  tx and  *)
(* rx hold the locals of the two calls: p as an offset into buf, and len,   *)
(* with the number of calls that failed with EINTR and of those that moved *)
(* bytes.                                                                  *)
(***************************************************************************)
\* the writer's end of the stream is closed (by ::close or by std::exit)
TxEndClosed == tx.pc \in {"closed", "died"}

\* a send_exact that runs  p += n; len -= n;  on a call that failed with
\* EINTR and took no byte, as if one byte had gone out
UnitSendEintr_counts ==
    /\ tx.pc = "loop"
    /\ tx.len > 0
    /\ tx.eintr < MaxEintr
    /\ tx' = [tx EXCEPT !.eintr = @ + 1, !.p = @ + 1, !.len = @ - 1]
    /\ UNCHANGED <<pipe, pipeRd, rx>>

\* ssize_t n = ::send(fd, p, len, 0);  with 0 < n <= len:  p += n; len -= n;
UnitSend(n) ==
    /\ tx.pc = "loop"
    /\ tx.len > 0
    /\ n \in 1..tx.len
    /\ pipe' = pipe \o SubSeq(tx.buf, tx.p + 1, tx.p + n)
    /\ tx' = [tx EXCEPT !.p = @ + n, !.len = @ - n, !.calls = @ + 1]
    /\ UNCHANGED <<pipeRd, rx>>

\* n < 0 and errno == EINTR: continue
UnitSendEintr ==
    /\ tx.pc = "loop"
    /\ tx.len > 0
    /\ tx.eintr < MaxEintr
    /\ tx' = [tx EXCEPT !.eintr = @ + 1]
    /\ UNCHANGED <<pipe, pipeRd, rx>>

\* n < 0 and another errno: die("send")
UnitSendDie ==
    /\ tx.pc = "loop"
    /\ tx.len > 0
    /\ tx' = [tx EXCEPT !.pc = "died"]
    /\ UNCHANGED <<pipe, pipeRd, rx>>

\* while (len) is false: send_exact returns
UnitSendReturn ==
    /\ tx.pc = "loop"
    /\ tx.len = 0
    /\ tx' = [tx EXCEPT !.pc = "returned"]
    /\ UNCHANGED <<pipe, pipeRd, rx>>

\* the caller closes the descriptor after send_exact has returned
UnitSendClose ==
    /\ tx.pc = "returned"
    /\ tx' = [tx EXCEPT !.pc = "closed"]
    /\ UNCHANGED <<pipe, pipeRd, rx>>

\* a recv_exact that stores every part at buf and not at p
UnitRecv_at_buf(n) ==
    /\ rx.pc = "loop"
    /\ rx.len > 0
    /\ n \in 1..Min(rx.len, Avail(pipe, pipeRd))
    /\ pipeRd' = pipeRd + n
    /\ rx' = [rx EXCEPT !.buf = [i \in 1..Len(@) |->
                                    IF i <= n THEN pipe[pipeRd + i] ELSE @[i]],
                        !.p = @ + n, !.len = @ - n, !.calls = @ + 1]
    /\ UNCHANGED <<pipe, tx>>

\* ssize_t n = ::recv(fd, p, len, 0);  with 0 < n <= len, n bytes being there:
\* they are stored at p;  p += n; len -= n;
UnitRecv(n) ==
    /\ rx.pc = "loop"
    /\ rx.len > 0
    /\ n \in 1..Min(rx.len, Avail(pipe, pipeRd))
    /\ pipeRd' = pipeRd + n
    /\ rx' = [rx EXCEPT !.buf = [i \in 1..Len(@) |->
                                    IF rx.p < i /\ i <= rx.p + n
                                    THEN pipe[pipeRd + i - rx.p] ELSE @[i]],
                        !.p = @ + n, !.len = @ - n, !.calls = @ + 1]
    /\ UNCHANGED <<pipe, tx>>

\* n == 0: the stream is at its end;  "closed early", std::exit(1)
UnitRecvEof ==
    /\ rx.pc = "loop"
    /\ rx.len > 0
    /\ Avail(pipe, pipeRd) = 0
    /\ TxEndClosed
    /\ rx' = [rx EXCEPT !.pc = "closed early"]
    /\ UNCHANGED <<pipe, pipeRd, tx>>

\* n < 0 and errno == EINTR: continue
UnitRecvEintr ==
    /\ rx.pc = "loop"
    /\ rx.len > 0
    /\ rx.eintr < MaxEintr
    /\ rx' = [rx EXCEPT !.eintr = @ + 1]
    /\ UNCHANGED <<pipe, pipeRd, tx>>

\* n < 0 and another errno: die("recv")
UnitRecvDie ==
    /\ rx.pc = "loop"
    /\ rx.len > 0
    /\ rx' = [rx EXCEPT !.pc = "died"]
    /\ UNCHANGED <<pipe, pipeRd, tx>>

\* while (len) is false: recv_exact returns
UnitRecvReturn ==
    /\ rx.pc = "loop"
    /\ rx.len = 0
    /\ rx' = [rx EXCEPT !.pc = "returned"]
    /\ UNCHANGED <<pipe, pipeRd, tx>>

\* the buffers handed to send_exact: 0 to MaxBuf bytes, all different
UnitBufs == {[i \in 1..k |-> 64 + i] : k \in 0..MaxBuf}

IoInit ==
    /\ Idle
    /\ pipe = <<>>
    /\ pipeRd = 0
    /\ \E b \in UnitBufs :
          tx = [pc |-> "loop", buf |-> b, p |-> 0, len |-> Len(b), eintr |-> 0,
                calls |-> 0]
    /\ \E k \in 0..MaxBuf :
          rx = [pc |-> "loop", buf |-> Rep(0, k), p |-> 0, len |-> k, eintr |-> 0,
                calls |-> 0]

UnitSendExact ==
    \/ \E n \in 1..MaxBuf : UnitSend(n)
    \/ UnitSendEintr
    \/ UnitSendDie
    \/ UnitSendReturn
    \/ UnitSendClose

UnitRecvExact ==
    \/ \E n \in 1..MaxBuf : UnitRecv(n)
    \/ UnitRecvEof
    \/ UnitRecvEintr
    \/ UnitRecvDie
    \/ UnitRecvReturn

IoNext ==
    /\ UnitSendExact \/ UnitRecvExact
    /\ UNCHANGED <<file, srvOrder, cliOrder, input, peerWrites, peerChunk, backlog,
                   srvVars, cliVars, chanVars, fdVars, histVars>>

IoSpec == IoInit /\ [][IoNext]_vars

(***************************************************************************)
(* The wire format, written down without the programs' conversions        *)
(***************************************************************************)
RECURSIVE SeqSum(_)
SeqSum(q) == IF q = <<>> THEN 0 ELSE Head(q) + SeqSum(Tail(q))

\* a string frame: the length in 4 bytes, most significant first, then the bytes
Frame(str) == Word(Len(str), 4) \o str

\* the metadata the server owes a client
Metadata == Frame(server_name) \o Frame(file_path) \o Word(file_size, 8)

MetaLen == Len(Metadata)

\* the lengths of the first two frames and of all three frames client c sends
TwoFrames(c) == Len(Frame(input[c].name)) + Len(Frame(input[c].query))

ThreeFrames(c) == TwoFrames(c) + Len(Frame(input[c].start))

\* where on the wire to a client the marker of the i-th chunk lies, the
\* chunks before it having the lengths ch[1..i-1]
MarkerPos(ch, i) == MetaLen + SeqSum(SubSeq(ch, 1, i - 1)) + (i - 1) + 1

\* the server has left the stream loop of c's session
LoopEnded(c) ==
    \/ cfd = c /\ srvPc \in {"send_zero2", "close"}
    \/ srvFd[c].st = "closed" /\ srvErr = ""

(***************************************************************************)
(* Properties                                                              *)
(***************************************************************************)

\* C1: round trip.  When a client has terminated successfully over reliable
\* connections, the payload buffers it printed, concatenated in order, are
\* byte for byte the file the server streamed.
C1_RoundTrip ==
    \A c \in Clients : cliPc[c] = "done" => delivered[c] = file

\* a client is done with a file of two and a half chunks that holds both
\* marker values, received as chunks of 100, 100 and 50 bytes
C1_Witness ==
    \E c \in Clients :
        /\ cliPc[c] = "done"
        /\ Len(file) = 2 * CHUNK + CHUNK \div 2
        /\ cliChunks[c] = <<CHUNK, CHUNK, CHUNK \div 2>>
        /\ \E i, j \in DOMAIN file : file[i] = Ch0 /\ file[j] = Ch1
        /\ delivered[c] = file

\* C2: once a client has consumed the first byte of the sentinel, and so
\* whenever it terminates successfully, its counter recvd equals the
\* file_size it decoded, which equals the server's file_size and the total
\* the server's counter sent reached in that session; this holds also when
\* calls fail on either side.
C2_CountsAgree ==
    \A c \in Clients :
        cliPc[c] \in {"recv_second", "close", "done"} =>
            /\ recvd[c] = c_file_size[c]
            /\ c_file_size[c] = file_size
            /\ SeqSum(srvChunks[c]) = file_size
            /\ (cfd = c /\ srvPc # "exited" => sent = file_size)

\* a client has consumed the sentinel of a file of more than one chunk
C2_Witness ==
    \E c \in Clients :
        /\ cliPc[c] = "close"
        /\ file_size > CHUNK
        /\ recvd[c] = file_size

\* C3: the stream loop emits ceil(n / CHUNK) chunks for a file of n bytes,
\* each preceded by one '1' marker; every chunk has between 1 and CHUNK
\* bytes, every chunk but the last has CHUNK, and the last has n mod CHUNK,
\* or CHUNK when n is a nonzero multiple of CHUNK.
C3_ChunkSizes ==
    \A c \in Clients :
        LET ch == srvChunks[c]
            n == file_size
        IN  /\ \A i \in DOMAIN ch : 1 <= ch[i] /\ ch[i] <= CHUNK
            /\ \A i \in 1..(Len(ch) - 1) : ch[i] = CHUNK
            /\ \A i \in DOMAIN ch : s2c[c][MarkerPos(ch, i)] = Ch1
            /\ LoopEnded(c) =>
                  /\ Len(ch) = (n + CHUNK - 1) \div CHUNK
                  /\ n > 0 => ch[Len(ch)] =
                                 (IF n % CHUNK = 0 THEN CHUNK ELSE n % CHUNK)
                  /\ Len(s2c[c]) >= MetaLen + SeqSum(ch) + Len(ch)

\* the loop has ended for a file that is a nonzero multiple of CHUNK
C3_Witness ==
    \E c \in Clients :
        /\ LoopEnded(c)
        /\ file_size = 2 * CHUNK
        /\ srvChunks[c] = <<CHUNK, CHUNK>>

\* C4: when the server has closed a session, the last two bytes it wrote are
\* '0' '0', after the markers and the payload of all chunks; for an empty
\* file nothing but the sentinel follows the metadata, the client prints no
\* chunk, does not fail, and can always go on until it is done.
C4_Sentinel ==
    \A c \in Clients :
        /\ srvFd[c].st = "closed" =>
              /\ SeqSum(srvChunks[c]) = file_size
              /\ Len(s2c[c]) = MetaLen + SeqSum(srvChunks[c]) + Len(srvChunks[c]) + 2
              /\ SubSeq(s2c[c], Len(s2c[c]) - 1, Len(s2c[c])) = <<Ch0, Ch0>>
        /\ file_size = 0 =>
              /\ Drop(s2c[c], MetaLen) \in {<<>>, <<Ch0>>, <<Ch0, Ch0>>}
              /\ cliChunks[c] = <<>>
              /\ cliPc[c] # "failed"
              /\ srvFd[c].st = "closed" => (cliPc[c] = "done" \/ ENABLED Client(c))

\* the server has closed the session of an empty file and the client is done
C4_Witness ==
    \E c \in Clients :
        /\ file_size = 0
        /\ srvFd[c].st = "closed"
        /\ cliPc[c] = "done"
        /\ s2c[c] = Metadata \o <<Ch0, Ch0>>

\* the payload of the chunks of lengths ch[i..] on a wire w to a client
RECURSIVE Payloads(_, _, _)
Payloads(w, ch, i) ==
    IF i > Len(ch) THEN <<>>
    ELSE SubSeq(w, MarkerPos(ch, i) + 1, MarkerPos(ch, i) + ch[i])
             \o Payloads(w, ch, i + 1)

\* C5: a step in which a client reads, where it expects a marker, a byte
\* that is neither '1' nor '0' ends the client with "protocol error": it
\* prints nothing in that step, what it has printed is the payload of the
\* chunks it completed, and its descriptor is closed; and a client that has
\* failed reads and prints nothing more and stays failed.
C5_BadMarker ==
    [][\A c \in Clients :
          /\ ( /\ cliPc[c] = "recv_flag"
               /\ s2cRd'[c] # s2cRd[c]
               /\ s2c[c][s2cRd[c] + 1] \notin {Ch0, Ch1} )
             => /\ cliPc'[c] = "failed"
                /\ cliErr'[c] = "protocol error"
                /\ s2cRd'[c] = s2cRd[c] + 1
                /\ cliFd'[c] = [st |-> "closed", closes |-> 1]
                /\ delivered'[c] = delivered[c]
                /\ delivered[c] = Payloads(s2c[c], cliChunks[c], 1)
          /\ cliPc[c] = "failed"
             => /\ cliPc'[c] = "failed"
                /\ s2cRd'[c] = s2cRd[c]
                /\ delivered'[c] = delivered[c]
                /\ cliFd'[c] = cliFd[c]
      ]_vars

\* a client has failed on a bad marker after it printed a chunk, and bytes
\* it will never read lie behind the marker
C5_Witness ==
    \E c \in Clients :
        /\ cliErr[c] = "protocol error"
        /\ cliPc[c] = "failed"
        /\ Len(cliChunks[c]) >= 1
        /\ delivered[c] # <<>>
        /\ Avail(s2c[c], s2cRd[c]) > 0

\* C6: the handshake is ordered.  The server has written nothing to a client
\* before it has consumed that client's first two frames; what it writes
\* first is the frame of server_name, the frame of file_path and the 8 bytes
\* of file_size, in that order; it has written nothing beyond them before it
\* has consumed the whole ready frame; and the client has written nothing of
\* the ready frame before it has consumed the three metadata fields.
C6_HandshakeOrder ==
    \A c \in Clients :
        LET m == Min(Len(s2c[c]), MetaLen)
        IN  /\ Len(s2c[c]) > 0 => c2sRd[c] >= TwoFrames(c)
            /\ Take(s2c[c], m) = Take(Metadata, m)
            /\ Len(s2c[c]) > MetaLen => c2sRd[c] = ThreeFrames(c)
            /\ Len(c2s[c]) > TwoFrames(c) => s2cRd[c] >= MetaLen
            /\ c2sRd[c] <= Len(c2s[c]) /\ s2cRd[c] <= Len(s2c[c])

\* the server streams to a client whose three frames it has consumed
C6_Witness ==
    \E c \in Clients :
        /\ Len(s2c[c]) > MetaLen
        /\ c2sRd[c] = ThreeFrames(c)
        /\ s2cRd[c] >= MetaLen
        /\ cfd = c /\ srvPc = "send_chunk"

\* C7: what the server writes does not depend on the second string or on the
\* ready string.  To two clients of the same name that differ in those
\* strings (also when one of them is empty) the server writes the same
\* bytes, as far as it has written to both and in full once both sessions
\* are closed; and once the frame of the second string or of the ready
\* string has arrived whole, the server can take its next step.
C7_OpaqueFrames ==
    /\ \A a, b \in Clients :
          ( /\ input[a].name = input[b].name
            /\ \/ input[a].query # input[b].query
               \/ input[a].start # input[b].start )
          => LET m == Min(Len(s2c[a]), Len(s2c[b]))
             IN  /\ Take(s2c[a], m) = Take(s2c[b], m)
                 /\ (srvFd[a].st = "closed" /\ srvFd[b].st = "closed")
                       => s2c[a] = s2c[b]
    /\ \A c \in Clients :
          /\ (cfd = c /\ srvPc = "recv_query" /\ Len(c2s[c]) >= TwoFrames(c))
                => ENABLED SrvRecvQuery
          /\ (cfd = c /\ srvPc = "recv_start" /\ Len(c2s[c]) >= ThreeFrames(c))
                => ENABLED SrvRecvStart

\* both sessions are closed, one client sent the strings of client.cpp and
\* the other two empty strings, and the file has more than one chunk
C7_Witness ==
    \E a, b \in Clients :
        /\ input[a].query = QueryLiteral /\ input[a].start = StartLiteral
        /\ input[b].query = <<>> /\ input[b].start = <<>>
        /\ srvFd[a].st = "closed" /\ srvFd[b].st = "closed"
        /\ file_size > CHUNK
        /\ s2c[a] = s2c[b]

\* C8: two sessions of one server process are alike.  Once the server has
\* closed both it has written the same bytes (metadata, markers, payload and
\* sentinel) and the same chunks to both clients, and two clients that are
\* done have decoded the same metadata and printed the same payload.
C8_SessionsAlike ==
    \A a, b \in Clients :
        /\ (srvFd[a].st = "closed" /\ srvFd[b].st = "closed")
              => /\ s2c[a] = s2c[b]
                 /\ srvChunks[a] = srvChunks[b]
                 /\ Take(s2c[a], MetaLen) = Metadata
        /\ (cliPc[a] = "done" /\ cliPc[b] = "done")
              => /\ c_server_name[a] = c_server_name[b]
                 /\ c_file_name[a] = c_file_name[b]
                 /\ c_file_size[a] = c_file_size[b]
                 /\ delivered[a] = delivered[b]

\* two clients are done, one after the other, with a file of several chunks
C8_Witness ==
    /\ \A c \in Clients : cliPc[c] = "done" /\ srvFd[c].st = "closed"
    /\ file_size = 2 * CHUNK + 1
    /\ srvChunks[1] = <<CHUNK, CHUNK, 1>>
    /\ srvChunks[2] = <<CHUNK, CHUNK, 1>>
    /\ srvPc = "accept"

\* C9 (as claimed): a session that fails is abandoned and the server goes on
\* to accept and serve later clients; that is, the server process never ends
\* while it holds an accepted connection.
C9_FailureKeepsServer ==
    ~(srvPc = "exited" /\ cfd # NoClient)

\* C10: every descriptor of a connection is closed once, by ::close at the
\* end of a session that succeeds and by the end of the process on every
\* failure path: no descriptor is closed twice, none is used by a send or a
\* recv when it is not open, a client that has ended has none open, and the
\* server has none open but the one of the session it is in.
C10_ClosedOnce ==
    /\ ~ioAfterClose
    /\ \A c \in Clients :
          /\ cliFd[c].closes <= 1
          /\ srvFd[c].closes <= 1
          /\ cliFd[c].st = "closed" => cliFd[c].closes = 1
          /\ srvFd[c].st = "closed" => srvFd[c].closes = 1
          /\ cliPc[c] \in {"done", "failed"} => cliFd[c].st # "open"
          /\ cliPc[c] = "done" => cliFd[c].st = "closed"
          /\ cliFd[c].st = "open" => cliPc[c] \in CliSendPcs \cup CliRecvPcs \cup {"close"}
          /\ srvFd[c].st = "open" => (cfd = c /\ srvPc \notin {"accept", "exited"})

\* the server has ended in a session whose client closed early, after a
\* session that succeeded; all four descriptors are closed once
C10_Witness ==
    /\ srvPc = "exited"
    /\ srvErr = "client closed early"
    /\ \A c \in Clients : srvFd[c] = [st |-> "closed", closes |-> 1]
    /\ \A c \in Clients : cliFd[c] = [st |-> "closed", closes |-> 1]
    /\ \E c \in Clients : cliPc[c] = "done"
    /\ \E c \in Clients : cliPc[c] = "failed"

\* C11: string frames round-trip.  What send_str writes for a string s is
\* the length of s in 4 bytes, most significant first, and then the bytes of
\* s; recv_str on a host of any byte order returns s from them, having
\* consumed 4 + |s| bytes and none of the bytes behind the frame; once the
\* frame is on the stream recv_str can return, also for the empty string.
C11_FrameRoundTrip ==
    /\ tx.pc \in {"send_size", "returned"} =>
          /\ Len(pipe) >= 4 + Len(tx.s)
          /\ Take(pipe, 4) = Word(Len(tx.s), 4)
          /\ SubSeq(pipe, 5, 4 + Len(tx.s)) = tx.s
          /\ rx.pc = "recv_str" => ENABLED UnitRecvStr
    /\ tx.pc = "send_size" => Len(pipe) = 4 + Len(tx.s)
    /\ rx.pc \in {"recv_size", "returned"} =>
          /\ rx.s = tx.s
          /\ Len(rx.s) = Len(tx.s)
    /\ rx.pc = "recv_size" =>
          /\ pipeRd = 4 + Len(tx.s)
          /\ Avail(pipe, pipeRd) = (IF tx.pc = "returned" THEN 8 ELSE 0)

\* an empty string written on a little-endian host was returned, empty, on a
\* big-endian one, and the 8 bytes behind its frame are still to be read
C11_Witness ==
    /\ srvOrder = "LE" /\ cliOrder = "BE"
    /\ tx.pc = "returned" /\ tx.s = <<>>
    /\ rx.pc = "recv_size" /\ rx.s = <<>>
    /\ pipeRd = 4
    /\ Avail(pipe, pipeRd) = 8

\* C12: the 64-bit size round-trips.  The 8 bytes the writer puts on the
\* stream for a size x are the bytes of x, most significant first, and the
\* reader decodes them to x, for either byte order of either host and for
\* every branch of the #if either program was built from, the fallback of
\* two 32-bit swaps included; on one host be64_to_host undoes host_to_be64.
C12_SizeRoundTrip ==
    /\ tx.pc = "returned" =>
          /\ Len(pipe) = 4 + Len(tx.s) + 8
          /\ Drop(pipe, 4 + Len(tx.s)) = tx.x
    /\ rx.pc = "returned" => rx.x = tx.x
    /\ \A b \in Builds, o \in Orders :
          be64_to_host_of(b, host_to_be64_of(b, tx.x, o), o) = tx.x

\* a size with a different byte in every place went from a little-endian
\* host that uses the fallback to a big-endian host
C12_Witness ==
    /\ tx.build = "generic" /\ srvOrder = "LE"
    /\ cliOrder = "BE"
    /\ tx.x = <<1, 2, 3, 4, 5, 6, 7, 8>>
    /\ rx.pc = "returned"
    /\ rx.x = <<1, 2, 3, 4, 5, 6, 7, 8>>
    /\ host_to_be64_generic(tx.x, "LE") = <<8, 7, 6, 5, 4, 3, 2, 1>>

\* C13: recv_exact returns only with len bytes in buf.  Whatever the parts
\* in which the bytes arrive and however many calls fail with EINTR, buf
\* holds at every moment the bytes of the stream in order up to p, none lost
\* and none twice, and the stream is consumed up to p and no further; when
\* recv_exact has returned p is the len it was called with; it ends with
\* "closed early", and does not return, when the stream ends before that; it
\* makes no further call once an error other than EINTR has ended it; and
\* called with len = 0 it returns and reads nothing.
C13_RecvExact ==
    LET len0 == Len(rx.buf)
    IN  /\ rx.p + rx.len = len0
        /\ pipeRd = rx.p
        /\ Take(rx.buf, rx.p) = Take(pipe, rx.p)
        /\ Drop(rx.buf, rx.p) = Rep(0, rx.len)
        /\ rx.pc = "returned" =>
              /\ rx.len = 0
              /\ rx.buf = Take(tx.buf, len0)
        /\ rx.pc = "closed early" =>
              /\ rx.p < len0
              /\ TxEndClosed
              /\ rx.p = Len(pipe)
        /\ rx.pc = "loop" /\ rx.len > 0 /\ Avail(pipe, pipeRd) > 0 =>
              ENABLED UnitRecv(1)
        /\ rx.pc \in {"died", "closed early", "returned"} => ~ENABLED UnitRecvExact
        /\ len0 = 0 =>
              /\ rx.pc \in {"loop", "returned"}
              /\ rx.eintr = 0
              /\ ENABLED UnitRecvReturn \/ rx.pc = "returned"

\* recv_exact has returned a buffer of MaxBuf bytes that it took in more
\* than one part, after interrupted calls
C13_Witness ==
    /\ rx.pc = "returned"
    /\ Len(rx.buf) = MaxBuf
    /\ rx.buf = tx.buf
    /\ rx.eintr = MaxEintr
    /\ rx.calls > 1

\* C14: send_exact returns only when the transport has taken every byte.
\* Whatever the parts the transport takes and however many calls fail with
\* EINTR, the bytes it has taken are at every moment the first p bytes of
\* buf, in order and once each, and a call that fails with EINTR adds none
\* and leaves p and len as they were; when send_exact has returned they are
\* all of buf; and once an error other than EINTR has ended it, it makes no
\* further call and does not return.
C14_SendExact ==
    /\ tx.p + tx.len = Len(tx.buf)
    /\ pipe = Take(tx.buf, tx.p)
    /\ tx.pc \in {"returned", "closed"} =>
          /\ tx.len = 0
          /\ pipe = tx.buf
    /\ tx.pc = "loop" /\ tx.len > 0 =>
          \A n \in 1..tx.len : ENABLED UnitSend(n)
    /\ tx.pc = "loop" /\ tx.len = 0 => ENABLED UnitSendReturn
    /\ tx.pc = "died" =>
          /\ tx.len > 0
          /\ ~ENABLED UnitSendExact

\* send_exact has returned after the transport took MaxBuf bytes in more
\* than one part, between calls that failed with EINTR
C14_Witness ==
    /\ tx.pc = "returned"
    /\ Len(tx.buf) = MaxBuf
    /\ pipe = tx.buf
    /\ tx.eintr = MaxEintr
    /\ tx.calls > 1

\* how far the server's session with client c has come: 0 before accept,
\* then one number for every statement of the handshake, 7 for the stream
\* loop, 8 and 9 behind it, 10 once cfd is closed (Terminated) and 11 when
\* the process ended in the session (Failed)
SrvRank(c) ==
    IF cfd = c
    THEN CASE srvPc = "recv_name" -> 1
           [] srvPc = "recv_query" -> 2
           [] srvPc = "send_sname" -> 3
           [] srvPc = "send_fname" -> 4
           [] srvPc = "send_size" -> 5
           [] srvPc = "recv_start" -> 6
           [] srvPc \in {"loop", "send_chunk"} -> 7
           [] srvPc = "send_zero2" -> 8
           [] srvPc = "close" -> 9
           [] OTHER -> 11
    ELSE IF srvFd[c].st = "closed" THEN 10 ELSE 0

\* the same for client c: 0 before connect, 7 for the receive loop, 10 for a
\* return from main (Terminated) and 11 for std::exit(1) (Failed)
CliRank(c) ==
    CASE cliPc[c] = "connect" -> 0
      [] cliPc[c] = "send_name" -> 1
      [] cliPc[c] = "send_query" -> 2
      [] cliPc[c] = "recv_sname" -> 3
      [] cliPc[c] = "recv_fname" -> 4
      [] cliPc[c] = "recv_size" -> 5
      [] cliPc[c] = "send_start" -> 6
      [] cliPc[c] \in {"recv_flag", "recv_chunk"} -> 7
      [] cliPc[c] = "recv_second" -> 8
      [] cliPc[c] = "close" -> 9
      [] cliPc[c] = "done" -> 10
      [] OTHER -> 11

\* C15: sessions are linear.  In every step, with or without failing calls,
\* each side of each connection stays where it is or moves forward; outside
\* the stream loop a side sends or receives on the connection only in a step
\* that moves it forward, so that no statement of the handshake runs twice
\* on a connection; and a side that is Terminated or Failed stays so and
\* sends, receives and closes nothing more on that connection.
C15_LinearPhases ==
    [][\A c \in Clients :
          /\ SrvRank(c)' >= SrvRank(c)
          /\ CliRank(c)' >= CliRank(c)
          /\ (SrvRank(c)' = SrvRank(c) /\ SrvRank(c) # 7)
                => /\ s2c'[c] = s2c[c]
                   /\ c2sRd'[c] = c2sRd[c]
                   /\ srvFd'[c] = srvFd[c]
          /\ (CliRank(c)' = CliRank(c) /\ CliRank(c) # 7)
                => /\ c2s'[c] = c2s[c]
                   /\ s2cRd'[c] = s2cRd[c]
                   /\ cliFd'[c] = cliFd[c]
          /\ SrvRank(c) >= 10 => SrvRank(c)' = SrvRank(c)
          /\ CliRank(c) >= 10 => CliRank(c)' = CliRank(c)
          /\ SrvRank(c)' > 7 => Len(s2c'[c]) <= MetaLen + file_size + Len(srvChunks'[c]) + 2
      ]_vars

\* one session is Terminated on both sides and the next one Failed on both
\* sides in its stream loop
C15_Witness ==
    /\ SrvRank(1) = 10 /\ CliRank(1) = 10
    /\ SrvRank(2) = 11 /\ CliRank(2) = 11
    /\ Len(s2c[2]) > MetaLen
    /\ recvd[2] > 0

\* C16: whatever a sender writes after the handshake, the client's recvd
\* never exceeds the file_size it decoded and is the sum of the buffers it
\* printed, none of them longer than CHUNK; the step that follows a '1'
\* takes min(CHUNK, file_size - recvd) bytes off the stream, no more; when
\* recvd = file_size that step needs no byte, takes none and prints none;
\* and the next byte the client takes is tested as a marker.
C16_NeverPastSize ==
    /\ [](\A c \in Clients :
             /\ recvd[c] <= c_file_size[c]
             /\ recvd[c] = SeqSum(cliChunks[c])
             /\ \A i \in DOMAIN cliChunks[c] : cliChunks[c][i] <= CHUNK
             /\ (cliPc[c] = "recv_chunk" /\ recvd[c] = c_file_size[c])
                   => ENABLED CliRecvChunk(c))
    /\ [][\A c \in Clients :
             /\ cliPc[c] = "recv_chunk" =>
                   /\ s2cRd'[c] - s2cRd[c] <= Min(CHUNK, c_file_size[c] - recvd[c])
                   /\ cliPc'[c] = "recv_flag" =>
                         /\ s2cRd'[c] - s2cRd[c] = Min(CHUNK, c_file_size[c] - recvd[c])
                         /\ recvd'[c] - recvd[c] = s2cRd'[c] - s2cRd[c]
                         /\ Len(delivered'[c]) - Len(delivered[c]) = s2cRd'[c] - s2cRd[c]
             /\ (cliPc[c] = "recv_chunk" /\ recvd[c] = c_file_size[c]) =>
                   /\ s2cRd'[c] = s2cRd[c]
                   /\ delivered'[c] = delivered[c]
             /\ (cliPc[c] = "recv_flag" /\ s2cRd'[c] # s2cRd[c]) =>
                   /\ s2cRd'[c] = s2cRd[c] + 1
                   /\ recvd'[c] = recvd[c]
                   /\ delivered'[c] = delivered[c]
                   /\ (cliPc'[c] = "recv_second") = (s2c[c][s2cRd[c] + 1] = Ch0)
                   /\ (cliPc'[c] = "recv_chunk") = (s2c[c][s2cRd[c] + 1] = Ch1)
       ]_vars

\* a client that had all of a one-byte file got another '1', took no byte
\* for it, and took the '0' behind it as the first byte of the sentinel
C16_Witness ==
    \E c \in Clients :
        /\ c_file_size[c] = 1
        /\ cliChunks[c] = <<1, 0>>
        /\ recvd[c] = 1
        /\ cliPc[c] = "recv_second"
        /\ Drop(s2c[c], MetaLen) = <<Ch1, 65, Ch1, Ch0>>
        /\ s2cRd[c] = Len(s2c[c])

\* C17 (as claimed): with a sender whose chunk size is any number from 1 to
\* CHUNK the client does not fail, and when it is done it has printed the
\* file.
C17_AnyChunkSize ==
    \A c \in Clients :
        /\ cliPc[c] # "failed"
        /\ cliPc[c] = "done" => delivered[c] = file

\* C17 (amended): when every chunk the sender emits has min(CHUNK, what is
\* outstanding) bytes, that is when its chunk size is CHUNK or the file is
\* no longer than its chunk size, the client does not fail, can go on until
\* it is done once the sender has closed, and has then printed the file.
C17_SameChunks ==
    (peerChunk = CHUNK \/ file_size <= peerChunk) =>
        \A c \in Clients :
            /\ cliPc[c] # "failed"
            /\ cliPc[c] = "done" => delivered[c] = file
            /\ srvFd[c].st = "closed" => (cliPc[c] = "done" \/ ENABLED Client(c))

\* a sender with a chunk size of half of CHUNK sent a file of that size in
\* one chunk, and the client is done with it
C17_Witness ==
    \E c \in Clients :
        /\ peerChunk = CHUNK \div 2
        /\ file_size = CHUNK \div 2
        /\ srvChunks[c] = <<CHUNK \div 2>>
        /\ cliChunks[c] = <<CHUNK \div 2>>
        /\ cliPc[c] = "done"
        /\ delivered[c] = file

\* the bytes the server writes to a client in a whole session
StreamLen == MetaLen + file_size + (file_size + CHUNK - 1) \div CHUNK + 2

\* C18: over reliable connections, no call failing and both programs
\* scheduled fairly, every session ends well on both sides: in the end every
\* client has returned from main, the server has closed every connection
\* and waits in accept.  On the way some process can always take a step
\* while a client is not done; server and client of a session are never
\* both in a receive with no byte in flight for either; no client ever
\* waits for bytes beyond those the server writes in the session; and a
\* client that is done has read exactly the bytes the server wrote.
C18_Live ==
    /\ <>[](/\ \A c \in Clients : cliPc[c] = "done" /\ srvFd[c].st = "closed"
            /\ srvPc = "accept")
    /\ [](/\ (\E c \in Clients : cliPc[c] # "done") => ENABLED Next
          /\ \A c \in Clients :
                /\ ~( /\ cfd = c
                      /\ srvPc \in SrvRecvPcs
                      /\ Avail(c2s[c], c2sRd[c]) = 0
                      /\ cliPc[c] \in CliRecvPcs
                      /\ Avail(s2c[c], s2cRd[c]) = 0 )
                /\ cliPc[c] \in CliRecvPcs => s2cRd[c] + CliNeed(c) <= StreamLen
                /\ Len(s2c[c]) <= StreamLen
                /\ cliPc[c] = "done" =>
                      /\ s2cRd[c] = Len(s2c[c])
                      /\ Len(s2c[c]) = StreamLen
                      /\ c2sRd[c] = Len(c2s[c]))

\* both sessions have ended well on both sides with a file of several chunks
C18_Witness ==
    /\ \A c \in Clients :
          /\ cliPc[c] = "done"
          /\ srvFd[c].st = "closed"
          /\ s2cRd[c] = StreamLen
    /\ srvPc = "accept"
    /\ backlog = <<>>
    /\ file_size = 2 * CHUNK + CHUNK \div 2

\* C19 (as claimed): whatever a sender writes after the handshake, a client
\* that has left its receive loop for ::close and return 0 has taken, as
\* the last two bytes it read, a '0' where it expected a marker and a
\* second '0' behind it.
C19_SentinelChecked ==
    \A c \in Clients :
        cliPc[c] \in {"close", "done"} =>
            /\ s2cRd[c] >= MetaLen + 2
            /\ s2c[c][s2cRd[c] - 1] = Ch0
            /\ s2c[c][s2cRd[c]] = Ch0

\* C20: the server serves one client at a time.  At most one descriptor
\* returned by accept is open; the server has read nothing from and written
\* nothing to a client before every client that connected earlier has had
\* its whole stream, sentinel included, and its connection closed; and
\* while the server waits for a frame that its client has not sent, it can
\* take no step at all, whoever else has connected and sent its strings,
\* and no later client has got a byte.
C20_OneAtATime ==
    /\ Cardinality({c \in Clients : srvFd[c].st = "open"}) <= 1
    /\ \A a, b \in Clients :
          (a < b /\ (srvFd[b].st # "none" \/ c2sRd[b] > 0 \/ Len(s2c[b]) > 0))
             => /\ srvFd[a].st = "closed"
                /\ Len(s2c[a]) = StreamLen
                /\ SubSeq(s2c[a], StreamLen - 1, StreamLen) = <<Ch0, Ch0>>
    /\ \A a \in Clients :
          ( /\ cfd = a
            /\ srvPc \in SrvRecvPcs
            /\ Avail(c2s[a], c2sRd[a]) < SrvNeed )
             => /\ ~ENABLED Server
                /\ \A b \in Clients : a < b => s2c[b] = <<>> /\ c2sRd[b] = 0

\* the first client has its metadata and has not sent its ready string; the
\* second has connected and sent both its strings, and has got nothing
C20_Witness ==
    /\ cfd = 1
    /\ srvPc = "recv_start"
    /\ cliPc[1] = "send_start"
    /\ backlog = <<2>>
    /\ cliPc[2] = "recv_sname"
    /\ Len(c2s[2]) = TwoFrames(2)
    /\ s2c[2] = <<>>
    /\ ~ENABLED Server

=============================================================================
